---------------------------- MODULE Spec2Model ----------------------------
(***************************************************************************)
(* Housing-Price-Prediction: the data-cleaning functions                   *)
(* (src/src/data_processing.py), the plot generators                       *)
(* (src/src/visualization.py) and the model helpers (src/src/models.py).   *)
(*                                                                         *)
(* A floating-point cell is the exact fraction n/d it holds, d > 0 and in  *)
(* lowest terms; d = 0 encodes the IEEE specials: 0/0 is NaN (a missing    *)
(* entry), 1/0 is +inf and -1/0 is -inf.                                   *)
(*                                                                         *)
(* A DataFrame is [index |-> row labels, names |-> the column names in     *)
(* order, cols |-> name :> column]; a column is [kind |-> "num" or "cat",  *)
(* vals |-> one cell per row]. A cell of a "cat" column is a string.       *)
(***************************************************************************)
EXTENDS Integers, Sequences, FiniteSets, TLC

VARIABLES df, last, again, figs

vars == <<df, last, again, figs>>

(***************************************************************************)
(* Bounds of the model.                                                    *)
(***************************************************************************)
MaxRows == 4

MaxOutRows == 5

MaxFigs == 2

SmallRows == 2

---------------------------------------------------------------------------
(***************************************************************************)
(* float64 arithmetic on exact fractions.                                  *)
(***************************************************************************)
Abs(i) == IF i < 0 THEN -i ELSE i

Sign(i) == IF i < 0 THEN -1 ELSE IF i > 0 THEN 1 ELSE 0

RECURSIVE GCD(_, _)
GCD(a, b) == IF b = 0 THEN a ELSE GCD(b, a % b)

Frac(n, d) ==
    IF d = 0 THEN [n |-> Sign(n), d |-> 0]
    ELSE LET g == GCD(Abs(n), Abs(d))
         IN  [n |-> (Sign(d) * n) \div g, d |-> Abs(d) \div g]

Num(i) == [n |-> i, d |-> 1]

NaN == [n |-> 0, d |-> 0]

IsNaN(x) == x.d = 0 /\ x.n = 0

\* float64 infinity
Inf == [n |-> 1, d |-> 0]

\* x / y as float64 division: k/0 is +-inf, 0/0 and anything with NaN is NaN
Div(x, y) ==
    IF IsNaN(x) \/ IsNaN(y) \/ (x.d = 0 /\ y.d = 0) THEN NaN
    ELSE IF x.d = 0 THEN [n |-> IF y.n < 0 THEN -x.n ELSE x.n, d |-> 0]
    ELSE Frac(x.n * y.d, x.d * y.n)

Add(x, y) ==
    IF x.d # 0 /\ y.d # 0 THEN Frac(x.n * y.d + y.n * x.d, x.d * y.d)
    ELSE IF IsNaN(x) \/ IsNaN(y) THEN NaN
    ELSE IF x.d = 0 /\ y.d = 0 THEN (IF x.n = y.n THEN x ELSE NaN)
    ELSE IF x.d = 0 THEN x ELSE y

Neg(x) == [n |-> -x.n, d |-> x.d]

Sub(x, y) == Add(x, Neg(y))

Mul(x, y) ==
    IF IsNaN(x) \/ IsNaN(y) THEN NaN ELSE Frac(x.n * y.n, x.d * y.d)

\* x <= y on floats: any comparison with NaN is False
Leq(x, y) ==
    /\ ~IsNaN(x)
    /\ ~IsNaN(y)
    /\ IF x.d # 0 /\ y.d # 0 THEN x.n * y.d <= y.n * x.d
       ELSE IF x.d = 0 /\ y.d = 0 THEN x.n <= y.n
       ELSE IF x.d = 0 THEN x.n < 0
       ELSE y.n > 0

Geq(x, y) == Leq(y, x)

---------------------------------------------------------------------------
(***************************************************************************)
(* pandas Series reductions used by the source.                            *)
(***************************************************************************)
\* Series.isnull().any()
AnyNull(vals) == \E i \in DOMAIN vals : IsNaN(vals[i])

\* the non-missing entries, in order (every reduction skips NaN)
DropNa(vals) == SelectSeq(vals, LAMBDA x : ~IsNaN(x))

RECURSIVE SumSeq(_)
SumSeq(s) == IF s = <<>> THEN Num(0) ELSE Add(Head(s), SumSeq(Tail(s)))

\* ascending insertion into a sorted sequence
RECURSIVE Insert(_, _)
Insert(x, s) ==
    IF s = <<>> THEN <<x>>
    ELSE IF Leq(x, Head(s)) THEN <<x>> \o s
    ELSE <<Head(s)>> \o Insert(x, Tail(s))

RECURSIVE SortAsc(_)
SortAsc(s) == IF s = <<>> THEN <<>> ELSE Insert(Head(s), SortAsc(Tail(s)))

\* Series.mean(): NaN for a column with no non-missing entry
SeriesMean(vals) ==
    LET v == DropNa(vals)
    IN  IF v = <<>> THEN NaN ELSE Div(SumSeq(v), Num(Len(v)))

\* a median that takes the lower of two middle entries
SeriesMedianLower(vals) ==
    LET s == SortAsc(DropNa(vals))
    IN  IF s = <<>> THEN NaN ELSE s[(Len(s) + 1) \div 2]

\* Series.median(): the middle entry, or the mean of the two middle entries
SeriesMedian(vals) ==
    LET s == SortAsc(DropNa(vals))
        k == Len(s)
    IN  IF k = 0 THEN NaN
        ELSE IF k % 2 = 1 THEN s[(k + 1) \div 2]
        ELSE Div(Add(s[k \div 2], s[k \div 2 + 1]), Num(2))

Count(x, v) == Cardinality({i \in DOMAIN v : v[i] = x})

RECURSIVE SetToSeq(_)
SetToSeq(S) ==
    IF S = {} THEN <<>>
    ELSE LET x == CHOOSE y \in S : TRUE IN <<x>> \o SetToSeq(S \ {x})

\* Series.mode(): the most frequent non-missing values, ascending
SeriesMode(vals) ==
    LET v == DropNa(vals)
        modal == {v[i] : i \in {i \in DOMAIN v :
                        \A j \in DOMAIN v : Count(v[j], v) <= Count(v[i], v)}}
    IN  SortAsc(SetToSeq(modal))

\* numpy's _lerp(a, b, t): a + (b - a) * t, taken from b's side for t >= 0.5;
\* an infinite neighbour makes the difference infinite or NaN
Lerp(a, b, t) ==
    LET diff_b_a == Sub(b, a)
    IN  IF Leq(Frac(1, 2), t) THEN Sub(b, Mul(diff_b_a, Sub(Num(1), t)))
        ELSE Add(a, Mul(diff_b_a, t))

\* Series.quantile(qn/qd), linear interpolation between the two closest ranks
SeriesQuantile(vals, qn, qd) ==
    LET s == SortAsc(DropNa(vals))
        k == Len(s)
        pos == (k - 1) * qn
        lo == pos \div qd
    IN  IF k = 0 THEN NaN
        ELSE IF pos >= (k - 1) * qd
             THEN Lerp(s[k], s[k], Frac(pos + qd, qd))
        ELSE Lerp(s[lo + 1], s[lo + 2], Frac(pos % qd, qd))

\* Series.fillna(value)
FillNa(vals, value) ==
    [i \in DOMAIN vals |-> IF IsNaN(vals[i]) THEN value ELSE vals[i]]

---------------------------------------------------------------------------
(***************************************************************************)
(* DataFrames.  Inside a function the local name df refers to an object;   *)
(* a frame st = [arg, cur, shared] holds the caller's object (arg), the    *)
(* object the local name refers to (cur) and whether the two are the same  *)
(* object (shared), so that an in-place write through an alias reaches the *)
(* caller.                                                                 *)
(***************************************************************************)
Enter(d) == [arg |-> d, cur |-> d, shared |-> TRUE]

\* no copy: the local name still refers to the caller's object
DfAlias(st) == st

\* df = df.copy(): the local name now refers to a fresh object
DfCopy(st) == [st EXCEPT !.shared = FALSE]

HasCol(d, c) == c \in DOMAIN d.cols

\* df[c] = vals, in place on the object the local name refers to
WithCol(d, c, col) ==
    [index |-> d.index,
     names |-> IF HasCol(d, c) THEN d.names ELSE Append(d.names, c),
     cols  |-> [x \in DOMAIN d.cols \cup {c} |-> IF x = c THEN col ELSE d.cols[x]]]

SetCol(st, c, col) ==
    LET w == WithCol(st.cur, c, col)
    IN  [arg |-> IF st.shared THEN w ELSE st.arg, cur |-> w, shared |-> st.shared]

\* df = <a new DataFrame>: the local name is rebound, nothing is written
Rebind(st, d) == [arg |-> st.arg, cur |-> d, shared |-> FALSE]

\* df.rename(columns={old: new}) (new is not already a column)
Rename(d, old, new) ==
    [index |-> d.index,
     names |-> [i \in DOMAIN d.names |-> IF d.names[i] = old THEN new ELSE d.names[i]],
     cols  |-> [x \in (DOMAIN d.cols \ {old}) \cup {new} |->
                    IF x = new THEN d.cols[old] ELSE d.cols[x]]]

\* df.select_dtypes(include=[np.number]).columns
NumericNames(d) == SelectSeq(d.names, LAMBDA c : d.cols[c].kind = "num")

---------------------------------------------------------------------------
(***************************************************************************)
(* Exceptions and results.  An exception is its type and the names its     *)
(* message mentions.  A body ends [exc, val, st]: the exception it raised  *)
(* (NoExc if none), the value it returned (<<>> if none) and its frame.    *)
(* The record of a call is [op, args, kind, exc, cause, val, out, files]:  *)
(* how it ended ("return" or "raise"), the exception the caller sees, the  *)
(* exception raised inside the try, the value returned, the messages       *)
(* printed and the files written; drew says that the call created a        *)
(* figure.                                                                 *)
(***************************************************************************)
NoExc == [type |-> "none", mentions |-> {}]

Exc(type, mentions) == [type |-> type, mentions |-> mentions]

Raised(e, st) == [exc |-> e, val |-> <<>>, st |-> st]

Returned(v, st) == [exc |-> NoExc, val |-> <<v>>, st |-> st]

\* a handler that prints and does not raise again: the call returns None
PrintAndSwallow(op, text, b) ==
    [op |-> op, kind |-> "return", exc |-> NoExc, cause |-> b.exc,
     val |-> IF b.exc = NoExc THEN b.val ELSE <<"None">>,
     out |-> IF b.exc = NoExc THEN <<>> ELSE <<[text |-> text, exc |-> b.exc]>>,
     args |-> <<>>, files |-> <<>>, drew |-> FALSE]

\* try: <body>  except Exception as e: print(f"<text>: {e}"); raise
PrintAndReraise(op, text, b) ==
    IF b.exc = NoExc
    THEN [op |-> op, kind |-> "return", exc |-> NoExc, cause |-> NoExc,
          val |-> b.val, out |-> <<>>, args |-> <<>>, files |-> <<>>, drew |-> FALSE]
    ELSE [op |-> op, kind |-> "raise", exc |-> b.exc, cause |-> b.exc,
          val |-> <<>>, out |-> <<[text |-> text, exc |-> b.exc]>>, args |-> <<>>,
          files |-> <<>>, drew |-> FALSE]

NoCall ==
    [op |-> "none", kind |-> "none", exc |-> NoExc, cause |-> NoExc,
     val |-> <<>>, out |-> <<>>, args |-> <<>>, files |-> <<>>, drew |-> FALSE]

---------------------------------------------------------------------------
(***************************************************************************)
(* preprocess_data                                                         *)
(***************************************************************************)
Strategies == {"mean", "median", "mode", "average"}

\* the loop over the numeric columns, lines 32-41
RECURSIVE FillMissing(_, _, _)
FillMissing(st, todo, fill_strategy) ==
    IF todo = <<>> THEN Returned(st.cur, st)
    ELSE LET col == Head(todo)
             vals == st.cur.cols[col].vals
             fill(v) == FillMissing(SetCol(st, col, [kind |-> "num", vals |-> FillNa(vals, v)]),
                                    Tail(todo), fill_strategy)
         IN  IF ~AnyNull(vals) THEN FillMissing(st, Tail(todo), fill_strategy)
             ELSE IF fill_strategy = "mean" THEN fill(SeriesMean(vals))
             ELSE IF fill_strategy = "median" THEN fill(SeriesMedian(vals))
             ELSE IF fill_strategy = "mode"
                  THEN IF SeriesMode(vals) = <<>>
                       THEN Raised(Exc("KeyError", {}), st)   \* mode()[0] of an empty Series
                       ELSE fill(SeriesMode(vals)[1])
             ELSE Raised(Exc("ValueError", {fill_strategy}), st)

\* df[num] / df[den], element-wise
Ratio(d, num, den) ==
    [kind |-> "num",
     vals |-> [i \in DOMAIN d.index |-> Div(d.cols[num].vals[i], d.cols[den].vals[i])]]

\* a derived column the frame already has is kept as it is
DeriveUnlessPresent(b, name, num, den) ==
    IF b.exc # NoExc THEN b
    ELSE LET d == b.st.cur
         IN  IF HasCol(d, name) THEN b
             ELSE IF ~HasCol(d, num) THEN Raised(Exc("KeyError", {num}), b.st)
             ELSE IF ~HasCol(d, den) THEN Raised(Exc("KeyError", {den}), b.st)
             ELSE IF d.cols[num].kind # "num" \/ d.cols[den].kind # "num"
                  THEN Raised(Exc("TypeError", {}), b.st)
             ELSE LET st == SetCol(b.st, name, Ratio(d, num, den))
                  IN  Returned(st.cur, st)

\* df[name] = df[num] / df[den], lines 44 and 45
Derive(b, name, num, den) ==
    IF b.exc # NoExc THEN b
    ELSE LET d == b.st.cur
         IN  IF ~HasCol(d, num) THEN Raised(Exc("KeyError", {num}), b.st)
             ELSE IF ~HasCol(d, den) THEN Raised(Exc("KeyError", {den}), b.st)
             ELSE IF d.cols[num].kind # "num" \/ d.cols[den].kind # "num"
                  THEN Raised(Exc("TypeError", {}), b.st)
             ELSE LET st == SetCol(b.st, name, Ratio(d, num, den))
                  IN  Returned(st.cur, st)

\* the body of the try, lines 26-47
PreprocessBody(d, fill_strategy) ==
    LET st0 == DfCopy(Enter(d))
        st1 == IF HasCol(st0.cur, "median_house_value")
               THEN Rebind(st0, Rename(st0.cur, "median_house_value", "Price"))
               ELSE st0
        filled == FillMissing(st1, NumericNames(st1.cur), fill_strategy)
    IN  Derive(Derive(filled, "Rooms_Per_Household", "total_rooms", "households"),
               "Bedrooms_Per_Room", "total_bedrooms", "total_rooms")

---------------------------------------------------------------------------
(***************************************************************************)
(* handle_outliers                                                         *)
(***************************************************************************)
\* the positions of s that are in keep, ascending
RECURSIVE Positions(_, _)
Positions(n, keep) ==
    IF n = 0 THEN <<>>
    ELSE IF n \in keep THEN Append(Positions(n - 1, keep), n)
    ELSE Positions(n - 1, keep)

\* df[mask].reset_index(drop=True): the rows kept, relabelled from 0
RowsRelabelled(d, keep) ==
    LET pos == Positions(Len(d.index), keep)
    IN  [index |-> [k \in DOMAIN pos |-> k - 1],
         names |-> d.names,
         cols  |-> [c \in DOMAIN d.cols |->
                       [kind |-> d.cols[c].kind,
                        vals |-> [k \in DOMAIN pos |-> d.cols[c].vals[pos[k]]]]]]

\* df[mask]: a new DataFrame with the rows at the positions in keep
Rows(d, keep) ==
    LET pos == Positions(Len(d.index), keep)
    IN  [index |-> [k \in DOMAIN pos |-> d.index[pos[k]]],
         names |-> d.names,
         cols  |-> [c \in DOMAIN d.cols |->
                       [kind |-> d.cols[c].kind,
                        vals |-> [k \in DOMAIN pos |-> d.cols[c].vals[pos[k]]]]]]

\* lines 80-84: [Q1 - 1.5 * IQR, Q3 + 1.5 * IQR]
Fence(vals) ==
    LET Q1 == SeriesQuantile(vals, 1, 4)
        Q3 == SeriesQuantile(vals, 3, 4)
        IQR == Sub(Q3, Q1)
    IN  [lower_bound |-> Sub(Q1, Mul(Frac(3, 2), IQR)),
         upper_bound |-> Add(Q3, Mul(Frac(3, 2), IQR))]

\* line 87: (df[col] >= lower_bound) & (df[col] <= upper_bound)
InFence(x, f) == Geq(x, f.lower_bound) /\ Leq(x, f.upper_bound)

\* every fence from the frame as it was passed in
FenceSourceOriginal(original, carried, col) == original.cols[col].vals

\* the column whose quantiles give the fence at one step of the loop
FenceSource(original, carried, col) == carried.cols[col].vals

\* the loop over the listed columns, lines 76-87
RECURSIVE FilterColumns(_, _, _)
FilterColumns(st, original, columns) ==
    IF columns = <<>> THEN Returned(st.cur, st)
    ELSE LET col == Head(columns)
             d == st.cur
         IN  IF ~HasCol(d, col) THEN Raised(Exc("KeyError", {col}), st)
             ELSE IF d.cols[col].kind # "num"
                  THEN \* quantile of strings: arithmetic on str, unless there is no entry
                       IF d.index # <<>> THEN Raised(Exc("TypeError", {}), st)
                       ELSE FilterColumns(Rebind(st, d), original, Tail(columns))
             ELSE LET f == Fence(FenceSource(original, d, col))
                      keep == {i \in DOMAIN d.index : InFence(d.cols[col].vals[i], f)}
                  IN  FilterColumns(Rebind(st, Rows(d, keep)), original, Tail(columns))

\* the body of the try, lines 75-89
HandleOutliersBody(d, columns) == FilterColumns(DfCopy(Enter(d)), d, columns)

---------------------------------------------------------------------------
(***************************************************************************)
(* visualization.py.  figs is the number of open pyplot figures; fs is the *)
(* condition of the disk: "ok", "no_dir" (the figures directory cannot be  *)
(* created) or "no_write" (the file cannot be written).                    *)
(***************************************************************************)
FsStates == {"ok", "no_dir", "no_write"}

\* a plot body ends [exc, val, figs, created, files]
PlotRaised(e, n, created) ==
    [exc |-> e, val |-> <<>>, figs |-> n, created |-> created, files |-> <<>>]

\* _save_and_clean, lines 13-17, entered with n figures open
SaveAndClean(filename, fs, n) ==
    IF fs = "no_dir" THEN PlotRaised(Exc("OSError", {}), n, TRUE)          \* os.makedirs
    ELSE IF fs = "no_write" THEN PlotRaised(Exc("OSError", {}), n, TRUE)   \* plt.savefig
    ELSE [exc |-> NoExc, val |-> <<"None">>, figs |-> n - 1, created |-> TRUE,
          files |-> <<[dir |-> "../reports/figures", name |-> filename]>>]  \* plt.close

\* the text of a column name, in tokens
NameText(name) ==
    CASE name = "total_rooms" -> <<"total", "_", "rooms">>
      [] name = "total_bedrooms" -> <<"total", "_", "bedrooms">>
      [] name = "ocean_proximity" -> <<"ocean", "_", "proximity">>
      [] name = "ocean_proximity_INLAND" -> <<"ocean", "_", "proximity", "_", "INLAND">>
      [] OTHER -> <<name>>

\* sub in name, on str
Contains(sub, name) ==
    LET a == NameText(sub)
        b == NameText(name)
    IN  \E i \in 0..(Len(b) - Len(a)) : SubSeq(b, i + 1, i + Len(a)) = a

\* lines 41-50
PlotDistributionBody(d, column, fs, n) ==
    IF ~HasCol(d, column) THEN PlotRaised(Exc("KeyError", {column}), n, FALSE)
    ELSE SaveAndClean(<<"distribution", column>>, fs, n + 1)

\* lines 75-82
PlotCorrelationHeatmapBody(d, fs, n) ==
    IF NumericNames(d) = <<>> THEN PlotRaised(Exc("ValueError", {}), n + 1, TRUE)
    ELSE SaveAndClean(<<"correlation_heatmap">>, fs, n + 1)

\* lines 111-120
PlotScatterWithTrendBody(d, x_col, y_col, fs, n) ==
    IF ~HasCol(d, x_col) \/ ~HasCol(d, y_col) THEN PlotRaised(Exc("KeyError", {}), n, FALSE)
    ELSE SaveAndClean(<<"scatter", x_col, y_col>>, fs, n + 1)

\* lines 148-152: the check that lets the call go on
CountsColumnAccepted(d, column) ==
    HasCol(d, column) \/ \E c \in DOMAIN d.cols : Contains(column, c)

\* lines 147-159
PlotCategoricalCountsBody(d, column, fs, n) ==
    IF ~CountsColumnAccepted(d, column) THEN PlotRaised(Exc("KeyError", {column}), n, FALSE)
    ELSE IF ~HasCol(d, column)
         THEN PlotRaised(Exc("ValueError", {column}), n + 1, TRUE)   \* sns.countplot
    ELSE SaveAndClean(<<"counts", column>>, fs, n + 1)

\* lines 186-193
PlotOutlierBoxplotBody(d, columns, fs, n) ==
    LET absent == {columns[i] : i \in {i \in DOMAIN columns : ~HasCol(d, columns[i])}}
    IN  IF absent # {} THEN PlotRaised(Exc("KeyError", absent), n + 1, TRUE)  \* df[columns]
        ELSE SaveAndClean(<<"outlier_boxplots">>, fs, n + 1)

\* lines 222-226
PlotViolinByCategoryBody(d, cat_col, num_col, fs, n) ==
    IF ~HasCol(d, cat_col) THEN PlotRaised(Exc("ValueError", {cat_col}), n + 1, TRUE)
    ELSE IF ~HasCol(d, num_col) THEN PlotRaised(Exc("ValueError", {num_col}), n + 1, TRUE)
    ELSE SaveAndClean(<<"violin", cat_col, num_col>>, fs, n + 1)

---------------------------------------------------------------------------
(***************************************************************************)
(* models.py.  The fit and the scores are scikit-learn's; the model keeps  *)
(* what decides whether they fail: rows without entries, a missing entry,  *)
(* and feature and target columns of different lengths.                    *)
(***************************************************************************)
DefaultMaxDepth == 5

RandomState == 42

RoundDigits == 4

HasMissing(d) ==
    \E c \in DOMAIN d.cols : d.cols[c].kind = "num" /\ AnyNull(d.cols[c].vals)

\* a cell check_array rejects in every build: an infinity, or a string
HasInfinite(d) ==
    \E c \in DOMAIN d.cols :
        \/ d.cols[c].kind = "cat" /\ d.cols[c].vals # <<>>
        \/ d.cols[c].kind = "num" /\ \E i \in DOMAIN d.cols[c].vals :
               d.cols[c].vals[i].d = 0 /\ d.cols[c].vals[i].n # 0

\* LinearRegression: model.fit(X_train, y_train) / model.predict(X_test) with the
\* metric's length check; a missing, infinite or string entry is rejected
Misfit(X, y_len) ==
    Len(X.index) = 0 \/ Len(X.index) # y_len \/ HasMissing(X) \/ HasInfinite(X)

\* lines 31-33
TrainLinearRegressionBody(X_train, y_len) ==
    IF Misfit(X_train, y_len) THEN [exc |-> Exc("ValueError", {}), val |-> <<>>]
    ELSE [exc |-> NoExc,
          val |-> <<[model |-> "LinearRegression", features |-> X_train.names]>>]

\* DecisionTreeRegressor takes missing entries from scikit-learn 1.3 on and
\* rejects them before; the repository pins no version, so both builds occur
SklearnBuilds == {"before_1_3", "from_1_3"}

\* tree.fit(X_train, y_train) / tree.predict(X_test) with the metric's length check
TreeMisfit(X, y_len, build) ==
    \/ Len(X.index) = 0
    \/ Len(X.index) # y_len
    \/ HasInfinite(X)
    \/ (build = "before_1_3" /\ HasMissing(X))

\* lines 63-65
TrainDecisionTreeBody(X_train, y_len, max_depth, build) ==
    IF TreeMisfit(X_train, y_len, build) THEN [exc |-> Exc("ValueError", {}), val |-> <<>>]
    ELSE [exc |-> NoExc,
          val |-> <<[model |-> "DecisionTreeRegressor", features |-> X_train.names,
                     max_depth |-> max_depth, random_state |-> RandomState]>>]

\* lines 95-100
EvaluateModelBody(model, X_test, y_len, build) ==
    IF \/ model.features # X_test.names
       \/ IF model.model = "DecisionTreeRegressor" THEN TreeMisfit(X_test, y_len, build)
          ELSE Misfit(X_test, y_len)
    THEN [exc |-> Exc("ValueError", {}), val |-> <<>>]
    ELSE [exc |-> NoExc, val |-> <<[keys |-> {"R2", "MSE"}, digits |-> RoundDigits]>>]

\* lines 129-132
ResultsDir(cwd) == IF cwd = "notebooks" THEN "../reports/results/" ELSE "reports/results"

\* lines 128-139
SaveResultsBody(metrics, filename, cwd, fs) ==
    IF fs # "ok" THEN [exc |-> Exc("OSError", {}), val |-> <<>>, out |-> <<>>, files |-> <<>>]
    ELSE [exc |-> NoExc, val |-> <<"None">>,
          out |-> <<[text |-> "Metrics saved successfully to", exc |-> NoExc]>>,
          files |-> <<[dir |-> ResultsDir(cwd), name |-> filename, indent |-> 4]>>]

---------------------------------------------------------------------------
(***************************************************************************)
(* The frames handed to preprocess_data: 1 to MaxRows rows of the housing  *)
(* table.  total_bedrooms and total_rooms may miss entries row by row,     *)
(* households is h in every row, and one further column may be present:    *)
(* the target under its raw name, a categorical column, a stale            *)
(* Rooms_Per_Household, or a population column; each numeric one misses    *)
(* its first entry, and population holds both infinities from 3 rows on.   *)
(***************************************************************************)
BedroomCells == {NaN, Num(0), Num(1)}

RoomCells == {NaN, Num(2)}

HouseholdCells == {Num(0), Num(2)}

ExtraNames ==
    {"none", "median_house_value", "ocean_proximity", "Rooms_Per_Household", "population"}

RangeIndex(n) == [i \in 1..n |-> i - 1]

NumCol(vals) == [kind |-> "num", vals |-> vals]

ExtraCol(e, n) ==
    IF e = "ocean_proximity" THEN [kind |-> "cat", vals |-> [i \in 1..n |-> "INLAND"]]
    ELSE IF e = "median_house_value"
         THEN NumCol([i \in 1..n |-> IF i = 1 THEN NaN ELSE Num(5)])
    ELSE IF e = "population"
         THEN NumCol([i \in 1..n |-> IF i = 1 THEN NaN ELSE IF i = 2 THEN Inf
                                     ELSE IF i = 3 THEN Neg(Inf) ELSE Num(5)])
    ELSE NumCol([i \in 1..n |-> IF i = 1 THEN NaN ELSE Num(7)])

HousingFrame(n, rooms, beds, h, e) ==
    LET base == [index |-> RangeIndex(n),
                 names |-> <<"total_rooms", "total_bedrooms", "households">>,
                 cols  |-> [c \in {"total_rooms", "total_bedrooms", "households"} |->
                               IF c = "total_rooms" THEN NumCol(rooms)
                               ELSE IF c = "total_bedrooms" THEN NumCol(beds)
                               ELSE NumCol([i \in 1..n |-> h])]]
    IN  IF e = "none" THEN base ELSE WithCol(base, e, ExtraCol(e, n))

\* the frames handed to handle_outliers: 1 to MaxOutRows rows
IncomeCells == {Num(0), Num(1)}

MissingBedroomCells == {NaN, Num(1)}

OutlierFrame(n, income, beds) ==
    [index |-> RangeIndex(n),
     names |-> <<"median_income", "total_bedrooms", "ocean_proximity">>,
     cols  |-> [c \in {"median_income", "total_bedrooms", "ocean_proximity"} |->
                   IF c = "median_income" THEN NumCol(income)
                   ELSE IF c = "total_bedrooms" THEN NumCol(beds)
                   ELSE [kind |-> "cat", vals |-> [i \in 1..n |-> "INLAND"]]]]

\* the frames of the notebook after one-hot encoding: SmallRows rows
EncodedFrame(beds) ==
    LET n == Len(beds)
        cs == {"total_rooms", "total_bedrooms", "households", "ocean_proximity_INLAND"}
    IN  [index |-> RangeIndex(n),
         names |-> <<"total_rooms", "total_bedrooms", "households", "ocean_proximity_INLAND">>,
         cols  |-> [c \in cs |->
                       IF c = "total_rooms" THEN NumCol([i \in 1..n |-> Num(2)])
                       ELSE IF c = "total_bedrooms" THEN NumCol(beds)
                       ELSE IF c = "households" THEN NumCol([i \in 1..n |-> Num(i - 1)])
                       ELSE NumCol([i \in 1..n |-> Num(i % 2)])]]

\* the column names handed to the plot functions: two columns, a prefix of
\* the one-hot columns, and a name that is no column
PlotNames == {"total_rooms", "ocean_proximity_INLAND", "ocean_proximity", "population"}

PlotLists == {<<a>> : a \in PlotNames} \cup (PlotNames \X PlotNames)

\* the column lists handed to handle_outliers; "population" is no column
ListNames == {"median_income", "total_bedrooms", "ocean_proximity", "population"}

ColumnLists == {<<>>} \cup {<<a>> : a \in ListNames} \cup (ListNames \X ListNames)

---------------------------------------------------------------------------
(***************************************************************************)
(* Actions: one per public operation, called by the notebook on its frame. *)
(***************************************************************************)
Preprocess ==
    \E fill_strategy \in Strategies :
        \E b \in {PreprocessBody(df, fill_strategy)} :
            /\ last' = [PrintAndReraise("preprocess_data", "Error in preprocessing data", b)
                            EXCEPT !.args = <<fill_strategy>>]
            /\ df' = b.st.arg
            /\ again' = NoCall
            /\ UNCHANGED figs

HandleOutliers ==
    \E columns \in ColumnLists :
        \E b \in {HandleOutliersBody(df, columns)} :
            /\ last' = [PrintAndReraise("handle_outliers", "Error handling outliers", b)
                            EXCEPT !.args = columns]
            /\ df' = b.st.arg
            /\ again' = NoCall
            /\ UNCHANGED figs

\* the notebook filters the frame it got back once more, with the same list
HandleOutliersAgain ==
    /\ last.op = "handle_outliers"
    /\ last.kind = "return"
    /\ again = NoCall
    /\ \E b \in {HandleOutliersBody(last.val[1], last.args)} :
            again' = [PrintAndReraise("handle_outliers", "Error handling outliers", b)
                          EXCEPT !.args = last.args]
    /\ UNCHANGED <<df, last, figs>>

\* a plot call's record, from its body
PlotCall(op, text, args, b) ==
    [PrintAndReraise(op, text, b) EXCEPT !.args = args, !.files = b.files, !.drew = b.created]

Plotted(call, n) ==
    /\ last' = call
    /\ figs' = n
    /\ again' = NoCall
    /\ UNCHANGED df

PlotDistribution ==
    /\ figs < MaxFigs
    /\ \E column \in PlotNames, fs \in FsStates :
         \E b \in {PlotDistributionBody(df, column, fs, figs)} :
            Plotted(PlotCall("plot_distribution", "Error plotting distribution for",
                             <<column>>, b), b.figs)

PlotCorrelationHeatmap ==
    /\ figs < MaxFigs
    /\ \E fs \in FsStates :
         \E b \in {PlotCorrelationHeatmapBody(df, fs, figs)} :
            Plotted(PlotCall("plot_correlation_heatmap", "Error plotting correlation heatmap",
                             <<>>, b), b.figs)

PlotScatterWithTrend ==
    /\ figs < MaxFigs
    /\ \E x_col \in PlotNames, y_col \in PlotNames, fs \in FsStates :
         \E b \in {PlotScatterWithTrendBody(df, x_col, y_col, fs, figs)} :
            Plotted(PlotCall("plot_scatter_with_trend", "Error plotting scatter plot",
                             <<x_col, y_col>>, b), b.figs)

PlotCategoricalCounts ==
    /\ figs < MaxFigs
    /\ \E column \in PlotNames, fs \in FsStates :
         \E b \in {PlotCategoricalCountsBody(df, column, fs, figs)} :
            Plotted(PlotCall("plot_categorical_counts", "Error plotting count plot for",
                             <<column>>, b), b.figs)

PlotOutlierBoxplot ==
    /\ figs < MaxFigs
    /\ \E columns \in PlotLists, fs \in FsStates :
         \E b \in {PlotOutlierBoxplotBody(df, columns, fs, figs)} :
            Plotted(PlotCall("plot_outlier_boxplot", "Error plotting boxplots",
                             columns, b), b.figs)

PlotViolinByCategory ==
    /\ figs < MaxFigs
    /\ \E cat_col \in PlotNames, num_col \in PlotNames, fs \in FsStates :
         \E b \in {PlotViolinByCategoryBody(df, cat_col, num_col, fs, figs)} :
            Plotted(PlotCall("plot_violin_by_category", "Error plotting violin plot",
                             <<cat_col, num_col>>, b), b.figs)

\* the target column has as many entries as the frame has rows, or one more
TargetLengths == {Len(df.index), Len(df.index) + 1}

Called(call) ==
    /\ last' = call
    /\ again' = NoCall
    /\ UNCHANGED <<df, figs>>

TrainLinearRegression ==
    \E y_len \in TargetLengths :
        Called([PrintAndReraise("train_linear_regression", "Error training Linear Regression",
                                TrainLinearRegressionBody(df, y_len))
                    EXCEPT !.args = <<y_len>>])

TrainDecisionTree ==
    \E y_len \in TargetLengths, build \in SklearnBuilds :
        Called([PrintAndReraise("train_decision_tree", "Error training Decision Tree",
                                TrainDecisionTreeBody(df, y_len, DefaultMaxDepth, build))
                    EXCEPT !.args = <<y_len, build>>])

\* the model is the one the last call fitted, under the same scikit-learn build
EvaluateModel ==
    /\ last.op \in {"train_linear_regression", "train_decision_tree"}
    /\ last.kind = "return"
    /\ \E y_len \in TargetLengths, build \in SklearnBuilds :
        /\ last.op = "train_decision_tree" => build = last.args[2]
        /\ Called([PrintAndReraise("evaluate_model", "Error evaluating model",
                                   EvaluateModelBody(last.val[1], df, y_len, build))
                       EXCEPT !.args = <<y_len, build>>])

\* the metrics are the ones the last call computed
SaveResults ==
    /\ last.op = "evaluate_model"
    /\ last.kind = "return"
    /\ \E cwd \in {"notebooks", "Housing-Price-Prediction"}, fs \in FsStates :
         \E b \in {SaveResultsBody(last.val[1], "metrics.json", cwd, fs)} :
            Called([PrintAndReraise("save_results", "Error saving results", b)
                        EXCEPT !.args = <<cwd>>, !.files = b.files, !.out = b.out \o @])

InitPre ==
    /\ \E n \in 1..MaxRows :
          \E rooms \in [1..n -> RoomCells], beds \in [1..n -> BedroomCells],
             h \in HouseholdCells, e \in ExtraNames :
              df = HousingFrame(n, rooms, beds, h, e)
    /\ last = NoCall
    /\ again = NoCall
    /\ figs = 0

\* one call of preprocess_data on each frame
NextPre == last = NoCall /\ Preprocess

SpecPre == InitPre /\ [][NextPre]_vars

InitOut ==
    /\ \E n \in 1..MaxOutRows :
          \E income \in [1..n -> IncomeCells], beds \in [1..n -> MissingBedroomCells] :
              df = OutlierFrame(n, income, beds)
    /\ last = NoCall
    /\ again = NoCall
    /\ figs = 0

\* one call of handle_outliers on each frame, and one more on its result
NextOut ==
    \/ last = NoCall /\ HandleOutliers
    \/ HandleOutliersAgain

SpecOut == InitOut /\ [][NextOut]_vars

Init ==
    /\ \E beds \in [1..SmallRows -> MissingBedroomCells] : df = EncodedFrame(beds)
    /\ last = NoCall
    /\ again = NoCall
    /\ figs = 0

Next ==
    \/ Preprocess
    \/ HandleOutliers
    \/ HandleOutliersAgain
    \/ TrainLinearRegression
    \/ TrainDecisionTree
    \/ EvaluateModel
    \/ SaveResults
    \/ PlotViolinByCategory
    \/ PlotOutlierBoxplot
    \/ PlotCategoricalCounts
    \/ PlotScatterWithTrend
    \/ PlotDistribution
    \/ PlotCorrelationHeatmap

Spec == Init /\ [][Next]_vars

---------------------------------------------------------------------------
(***************************************************************************)
(* Properties.                                                             *)
(***************************************************************************)
PreprocessReturned == last.op = "preprocess_data" /\ last.kind = "return"

OutliersReturned == last.op = "handle_outliers" /\ last.kind = "return"

ValidStrategies == {"mean", "median", "mode"}

\* the name a column of the input has in the frame preprocess_data returns
NameAfter(c) == IF c = "median_house_value" THEN "Price" ELSE c

\* C1: preprocess_data called with a fill_strategy other than 'mean', 'median'
\* or 'mode' always raises ValueError, whatever the frame holds.
C1_UnknownStrategyAlwaysRaises ==
    (last.op = "preprocess_data" /\ last.args[1] \notin ValidStrategies)
        => (last.kind = "raise" /\ last.exc.type = "ValueError")

\* m is the mean of the entries v: m times their number is their sum
IsMeanOf(m, v) == Mul(m, Num(Len(v))) = SumSeq(v)

\* m is the median of the entries v: m is midway between the lower and the upper
\* middle entry, the lower one having fewer than half of the entries strictly
\* below it and at least half at or below it, the upper one symmetrically
IsMedianOf(m, v) ==
    \E i, j \in DOMAIN v :
        /\ 2 * Cardinality({k \in DOMAIN v : ~Geq(v[k], v[i])}) < Len(v)
        /\ 2 * Cardinality({k \in DOMAIN v : Leq(v[k], v[i])}) >= Len(v)
        /\ 2 * Cardinality({k \in DOMAIN v : ~Leq(v[k], v[j])}) < Len(v)
        /\ 2 * Cardinality({k \in DOMAIN v : Geq(v[k], v[j])}) >= Len(v)
        /\ Add(m, m) = Add(v[i], v[j])

\* m is the first modal value of v: no entry is more frequent, and no smaller
\* entry is as frequent
IsFirstModeOf(m, v) ==
    /\ \E i \in DOMAIN v : v[i] = m
    /\ \A j \in DOMAIN v : Count(v[j], v) <= Count(m, v)
    /\ \A j \in DOMAIN v : Count(v[j], v) = Count(m, v) => Leq(m, v[j])

IsStatisticOf(m, v, fill_strategy) ==
    IF fill_strategy = "mean" THEN IsMeanOf(m, v)
    ELSE IF fill_strategy = "median" THEN IsMedianOf(m, v)
    ELSE IsFirstModeOf(m, v)

\* column c of the input, which misses entries, is imputed in the result
Imputed(c) ==
    LET old == df.cols[c].vals
        new == last.val[1].cols[NameAfter(c)].vals
    IN  /\ ~AnyNull(new)
        /\ \A i \in DOMAIN old :
              IF IsNaN(old[i]) THEN IsStatisticOf(new[i], DropNa(old), last.args[1])
              ELSE new[i] = old[i]

MissingColumns ==
    {c \in DOMAIN df.cols : df.cols[c].kind = "num" /\ AnyNull(df.cols[c].vals)}

\* C2 as claimed: after a call with a valid strategy every numeric column that
\* missed entries has none left, each filled with the column's mean, median or
\* first mode, the other entries unchanged - a column with no entry at all
\* included.
C2_EveryMissingColumnImputed ==
    (PreprocessReturned /\ last.args[1] \in ValidStrategies)
        => \A c \in MissingColumns : Imputed(c)

\* the columns preprocess_data assigns after the fill loop
DerivedNames == {"Rooms_Per_Household", "Bedrooms_Per_Room"}

\* column c has an entry and every entry it has is finite
Fillable(c) ==
    LET v == DropNa(df.cols[c].vals)
    IN  v # <<>> /\ \A i \in DOMAIN v : v[i].d # 0

\* C2 as amended: after a call with a valid strategy every numeric column that
\* misses some entries, has at least one entry, has only finite entries and
\* is not one of the two derived columns has no missing entry left, each
\* filled with the column's mean, median or first mode, the other entries
\* unchanged.
C2_FillableColumnsImputed ==
    (PreprocessReturned /\ last.args[1] \in ValidStrategies)
        => \A c \in MissingColumns \ DerivedNames : Fillable(c) => Imputed(c)

\* C2 witness: a median fill of total_bedrooms, whose median is not its mean,
\* and of total_rooms, next to a stale Rooms_Per_Household that misses an entry
C2_Witness ==
    /\ PreprocessReturned
    /\ last.args = <<"median">>
    /\ "total_bedrooms" \in MissingColumns
    /\ SeriesMedian(df.cols["total_bedrooms"].vals) # SeriesMean(df.cols["total_bedrooms"].vals)
    /\ "total_rooms" \in MissingColumns
    /\ DropNa(df.cols["total_rooms"].vals) # <<>>
    /\ "Rooms_Per_Household" \in MissingColumns

\* C3 as claimed: filtering the filtered frame again, with the same list,
\* returns the same frame.
C3_FilteringIsIdempotent ==
    again.op = "handle_outliers" => (again.kind = "return" /\ again.val = last.val)

\* frame b holds only rows of frame a, unchanged and in a's order
SubFrame(b, a) ==
    /\ b.names = a.names
    /\ DOMAIN b.cols = DOMAIN a.cols
    /\ \E f \in [DOMAIN b.index -> DOMAIN a.index] :
          /\ \A i, j \in DOMAIN f : i < j => f[i] < f[j]
          /\ \A i \in DOMAIN f :
                /\ b.index[i] = a.index[f[i]]
                /\ \A c \in DOMAIN a.cols : b.cols[c].vals[i] = a.cols[c].vals[f[i]]

\* C3 as amended: filtering the filtered frame again, with the same list,
\* returns a frame that holds only rows of the filtered frame, unchanged and
\* in the same order; it may hold fewer.
C3_RefilteringOnlyDropsRows ==
    again.op = "handle_outliers"
        => (again.kind = "return" /\ SubFrame(again.val[1], last.val[1]))

\* C3 witness: the second pass dropped a row the first pass kept
C3_Witness ==
    /\ again.op = "handle_outliers"
    /\ again.kind = "return"
    /\ Len(again.val[1].index) < Len(last.val[1].index)
    /\ Len(last.val[1].index) < Len(df.index)

\* the positions of frame d that survive the listed columns, taken in order:
\* each column's fence is computed from the rows that survived the columns
\* before it
RECURSIVE Survivors(_, _)
Survivors(d, columns) ==
    IF columns = <<>> THEN DOMAIN d.index
    ELSE LET before == Survivors(d, SubSeq(columns, 1, Len(columns) - 1))
             col == d.cols[columns[Len(columns)]]
             pos == Positions(Len(d.index), before)
             f == Fence([k \in DOMAIN pos |-> col.vals[pos[k]]])
         IN  IF col.kind # "num" THEN before
             ELSE {i \in before : InFence(col.vals[i], f)}

\* the fence of the k-th listed column, from the rows carried forward to it
StepFence(d, columns, k) ==
    LET pos == Positions(Len(d.index), Survivors(d, SubSeq(columns, 1, k - 1)))
    IN  Fence([j \in DOMAIN pos |-> d.cols[columns[k]].vals[pos[j]]])

\* C4: handle_outliers takes the listed columns in order, computes each fence
\* [Q1 - 1.5*IQR, Q3 + 1.5*IQR] from the rows carried forward and keeps the rows
\* inside it, bounds included; so every returned row lies inside every step's
\* fence, and the returned rows are input rows, unchanged.
C4_RowsInsideEveryStepFence ==
    OutliersReturned =>
        LET r == last.val[1]
            keep == Survivors(df, last.args)
            pos == Positions(Len(df.index), keep)
        IN  /\ r.names = df.names
            /\ r.index = [k \in DOMAIN pos |-> df.index[pos[k]]]
            /\ \A c \in DOMAIN df.cols :
                  r.cols[c] = [kind |-> df.cols[c].kind,
                               vals |-> [k \in DOMAIN pos |-> df.cols[c].vals[pos[k]]]]
            /\ \A k \in DOMAIN last.args :
                  df.cols[last.args[k]].kind = "num" =>
                     LET f == StepFence(df, last.args, k)
                     IN  \A i \in DOMAIN r.index : InFence(r.cols[last.args[k]].vals[i], f)

\* C4 witness: two columns, the first drops a row, which moves the fence of the
\* second, which drops another row and keeps one
C4_Witness ==
    /\ OutliersReturned
    /\ Len(last.args) = 2
    /\ \A k \in 1..2 : df.cols[last.args[k]].kind = "num"
    /\ Survivors(df, <<last.args[1]>>) # DOMAIN df.index
    /\ StepFence(df, last.args, 2) # Fence(df.cols[last.args[2]].vals)
    /\ Survivors(df, last.args) # Survivors(df, <<last.args[1]>>)
    /\ last.val[1].index # <<>>

\* C5: handle_outliers called with a list that holds a name that is no column
\* raises KeyError and returns nothing, wherever the name is in the list.
C5_AbsentColumnAlwaysKeyError ==
    (last.op = "handle_outliers" /\ \E i \in DOMAIN last.args : ~HasCol(df, last.args[i]))
        => (last.kind = "raise" /\ last.exc.type = "KeyError" /\ Len(last.val) = 0)

\* C6: the frame preprocess_data returns has Rooms_Per_Household and
\* Bedrooms_Per_Room, equal row by row to total_rooms / households and
\* total_bedrooms / total_rooms of that frame, whatever the input held under
\* those names.
C6_DerivedFeaturesAreTheRatios ==
    PreprocessReturned =>
        LET r == last.val[1]
        IN  /\ HasCol(r, "Rooms_Per_Household")
            /\ HasCol(r, "Bedrooms_Per_Room")
            /\ \A i \in DOMAIN r.index :
                  /\ r.cols["Rooms_Per_Household"].vals[i]
                        = Div(r.cols["total_rooms"].vals[i], r.cols["households"].vals[i])
                  /\ r.cols["Bedrooms_Per_Room"].vals[i]
                        = Div(r.cols["total_bedrooms"].vals[i], r.cols["total_rooms"].vals[i])

\* C6 witness: the input held a stale Rooms_Per_Household and missed entries of
\* total_rooms and total_bedrooms, which the ratios are taken after filling
C6_Witness ==
    /\ PreprocessReturned
    /\ HasCol(df, "Rooms_Per_Household")
    /\ last.val[1].cols["Rooms_Per_Household"] # df.cols["Rooms_Per_Household"]
    /\ {"total_rooms", "total_bedrooms"} \subseteq MissingColumns
    /\ \A i \in DOMAIN df.index : ~IsNaN(last.val[1].cols["Bedrooms_Per_Room"].vals[i])

\* C7: no call of preprocess_data or handle_outliers, returning or raising,
\* changes the caller's frame.
C7_CallerFrameUntouched == [][df' = df]_vars

\* C7 witness: preprocess_data filled entries of its copy and returned it
C7_Witness ==
    /\ PreprocessReturned
    /\ "total_bedrooms" \in MissingColumns
    /\ ~AnyNull(last.val[1].cols["total_bedrooms"].vals)

\* C8: after any sequence of plot calls, failed or not, no figure is open.
C8_NoFigureLeftOpen == figs = 0

ColumnPlots ==
    {"plot_distribution", "plot_scatter_with_trend", "plot_categorical_counts",
     "plot_outlier_boxplot", "plot_violin_by_category"}

Requested(call) == {call.args[i] : i \in DOMAIN call.args}

\* C9: a plot call that names a column the frame lacks raises KeyError naming
\* it before any figure is created; only plot_categorical_counts also takes a
\* name that is part of a column's name, and then saves its chart.
C9_PlotsValidateColumnsFirst ==
    (last.op \in ColumnPlots /\ Requested(last) \ DOMAIN df.cols # {}) =>
        IF last.op = "plot_categorical_counts"
              /\ \E c \in DOMAIN df.cols : Contains(last.args[1], c)
        THEN last.kind = "return" \/ last.exc.type = "OSError"
        ELSE /\ last.kind = "raise"
             /\ last.exc.type = "KeyError"
             /\ (Requested(last) \ DOMAIN df.cols) \cap last.exc.mentions # {}
             /\ ~last.drew

\* the words with which each operation reports a failure
ErrorText(op) ==
    CASE op = "preprocess_data" -> "Error in preprocessing data"
      [] op = "handle_outliers" -> "Error handling outliers"
      [] op = "train_linear_regression" -> "Error training Linear Regression"
      [] op = "train_decision_tree" -> "Error training Decision Tree"
      [] op = "evaluate_model" -> "Error evaluating model"
      [] op = "save_results" -> "Error saving results"
      [] op = "plot_distribution" -> "Error plotting distribution for"
      [] op = "plot_correlation_heatmap" -> "Error plotting correlation heatmap"
      [] op = "plot_scatter_with_trend" -> "Error plotting scatter plot"
      [] op = "plot_categorical_counts" -> "Error plotting count plot for"
      [] op = "plot_outlier_boxplot" -> "Error plotting boxplots"
      [] op = "plot_violin_by_category" -> "Error plotting violin plot"
      [] OTHER -> ""

\* a call in which something failed printed one message, naming the operation
\* and the failure, and raised that failure; it returned nothing
FailureReported(call) ==
    /\ call.kind = "return" => call.cause = NoExc
    /\ call.cause # NoExc =>
          /\ call.kind = "raise"
          /\ call.exc = call.cause
          /\ Len(call.val) = 0
          /\ Len(call.out) = 1
          /\ call.out[1] = [text |-> ErrorText(call.op), exc |-> call.cause]

\* C10: every public operation handles a failure raised inside it by printing
\* exactly one message naming the operation and the cause and re-raising the
\* same failure; it never swallows it, replaces it, retries or returns a value.
C10_FailuresPrintedOnceAndReraised == FailureReported(last) /\ FailureReported(again)

\* C10 witness: save_results could not write and raised the OSError
C10_Witness ==
    /\ last.op = "save_results"
    /\ last.kind = "raise"
    /\ last.exc.type = "OSError"

===========================================================================
